---- MODULE Spec2Model ----
(***************************************************************************)
(* whizzer: the RPC engine of whizzer/rpc.py (proxies, protocols, the      *)
(* protocol factory), the client connection glue of whizzer/client.py and  *)
(* the Deferred exercised by tests/test_defer.py.                          *)
(*                                                                         *)
(* Everything runs on one event-loop thread, so every handler is one       *)
(* atomic action.  An exception that escapes a handler is recorded in exc. *)
(* A handler that returns a new Future returns the last element of futs.   *)
(***************************************************************************)
EXTENDS Integers, Sequences, FiniteSets, TLC

\* ------------------------------------------------------------------ bounds
MaxConns == 2
MaxFutures == 3
MaxSent == 2
MaxBatch == 2
MaxChain == 3

\* ------------------------------------------------------------------ values
\* Python values that travel through Futures and frames, as uniform records.
Nil == [k |-> "nil", v |-> 0]
IntV(n) == [k |-> "int", v |-> n]
ProxyV(p) == [k |-> "proxy", v |-> p]
RemoteV == [k |-> "remote", v |-> 0]
RPCErrorV == [k |-> "RPCError", v |-> 0]
ExcV(name) == [k |-> name, v |-> 0]

Codecs == {"marshal", "msgpack"}
Pids == 1..MaxConns

VARIABLES
    codec,          \* factory.protocol: the protocol class the factory builds
    protocols,      \* factory.protocols: the list of live protocols
    built,          \* how many protocols build() has constructed; build order
    conn_number,    \* per protocol: its index in factory.protocols when built,
                    \* the number its users pass to factory.proxy()
    conn,           \* per protocol: "none" (not built) | "init" | "open" | "closed"
    factoryRef,     \* per protocol: self.factory is not None
    transport,      \* per protocol: self.transport is not None
    proxyObj,       \* per protocol: self._proxy is not None
    proxy_futures,  \* per protocol: self._proxy_futures
    request_num,    \* per proxy: self.request_num
    requests,       \* per proxy: self.requests, request id -> future
    sent,           \* per protocol: frames written to the transport, in order
    unpacker,       \* per protocol: decoded frames not yet handled
    futs,           \* every Future created so far, by creation order
    made_waiters,   \* history: the proxy Futures that connection_made resolved
    exc,            \* exception that escaped the last operation ("none" if none)
    d,              \* the Deferred of tests/test_defer.py
    calls,          \* history: the handler invocations of d, in order
    timedOut        \* history: a result(timeout) on d has raised TimeoutError

factoryVars == <<codec, protocols, built, conn_number>>
protoVars == <<conn, factoryRef, transport, proxyObj, proxy_futures>>
proxyVars == <<request_num, requests>>
wireVars == <<sent, unpacker>>
vars == <<codec, protocols, built, conn_number, conn, factoryRef, transport,
          proxyObj, proxy_futures, request_num, requests, sent, unpacker, futs,
          made_waiters, exc, d, calls, timedOut>>
rpcVars == <<codec, protocols, built, conn_number, conn, factoryRef, transport,
             proxyObj, proxy_futures, request_num, requests, sent, unpacker,
             futs, made_waiters>>
dVars == <<d, calls, timedOut>>

\* ----------------------------------------------------------------- Future
\* whizzer.futures.Future as rpc.py uses it: set_result, set_exception,
\* cancel, result(timeout).
\* request is the f.request attribute the proxies attach (-1: none); hook is
\* the done callback attached with add_done_callback ("none": no callback).
NewFuture(request) ==
    [state |-> "pending", kind |-> "none", val |-> Nil, request |-> request,
     hook |-> "none"]

\* The Future a handler returned for request id, after the protocol has set
\* result.request / result.msgid and added _result_done as done callback.
HandlerFuture(id) == [NewFuture(id) EXCEPT !.hook = "_result_done"]

\* set_result / set_exception: the single assignment of the outcome.
FutSet(fut, kind, val) ==
    IF fut.state = "pending"
    THEN [fut |-> [fut EXCEPT !.state = "done", !.kind = kind, !.val = val],
          exc |-> "none"]
    ELSE IF fut.state = "cancelled"
    THEN [fut |-> fut, exc |-> "CancelledError"]
    ELSE [fut |-> fut, exc |-> "AlreadyCalledError"]

FutCancel(fut) ==
    IF fut.state = "pending"
    THEN [fut |-> [fut EXCEPT !.state = "cancelled", !.kind = "err"], exc |-> "none"]
    ELSE [fut |-> fut, exc |-> "AlreadyCalledError"]

\* ----------------------------------------------------------------- frames
\* One record shape for the three message kinds of both codecs:
\*   marshal (False, id, method, args) / msgpack [0, msgid, method, params]
\*   marshal (False, None, method, args) / msgpack [2, method, params]
\*   marshal (True, id, error, result) / msgpack [1, msgid, error, result]
Frame(t, id, m, err, val) == [t |-> t, id |-> id, m |-> m, err |-> err, val |-> val]
RequestFrame(id, m) == Frame("request", id, m, FALSE, Nil)
NotifyFrame(m) == Frame("notify", -1, m, FALSE, Nil)
ResponseFrame(id, err, val) == Frame("response", id, "", err, val)

Methods == {"add"}

DropKey(fn, key) == [i \in DOMAIN fn \ {key} |-> fn[i]]
PutKey(fn, key, val) == [i \in DOMAIN fn \cup {key} |-> IF i = key THEN val ELSE fn[i]]
EmptyMap == [i \in {} |-> 0]

\* ------------------------------------------------- one protocol's handlers
\* The part of the state one protocol's frame handlers read and write, threaded
\* through the handlers; exc # "none" means an exception is propagating.
Machine(p) ==
    [requests |-> requests[p], futs |-> futs, sent |-> sent[p],
     buf |-> unpacker[p], tr |-> transport[p], exc |-> "none"]

\* transport.write(msg) of send_request / send_response / send_notification
\* (and MarshalLengthProtocol.send): the transport is None once the
\* connection has gone.
Send(S, frame) ==
    IF S.tr THEN [S EXCEPT !.sent = Append(@, frame)]
    ELSE [S EXCEPT !.exc = "AttributeError"]

\* The methods a server application registers: add returns a value, later
\* returns a Future, boom raises an Exception, rpcerr raises RPCError.  Any
\* other name is not in the dispatcher.
Registered == {"add", "later", "boom", "rpcerr"}

\* Dispatch.call(method, args): self.methods[method](*args)
DispatchCall(m) ==
    CASE m = "add" -> [exc |-> "none", val |-> IntV(5), future |-> FALSE]
      [] m = "later" -> [exc |-> "none", val |-> Nil, future |-> TRUE]
      [] m = "boom" -> [exc |-> "Exception", val |-> Nil, future |-> FALSE]
      [] m = "rpcerr" -> [exc |-> "RPCError", val |-> Nil, future |-> FALSE]
      [] OTHER -> [exc |-> "KeyError", val |-> Nil, future |-> FALSE]

\* What marshal.dumps and msgpack.packb can encode: None, numbers, strings.
\* An exception instance is not among them.
Packable(val) == val.k \in {"nil", "int", "remote"}

\* _send_results / send_response: the frame is encoded, then written.
\* marshal.dumps raises ValueError and msgpack.packb TypeError on a value
\* they cannot encode.
SendResponse(S, id, err, val) ==
    IF Packable(val) THEN Send(S, ResponseFrame(id, err, val))
    ELSE [S EXCEPT !.exc = IF codec = "marshal" THEN "ValueError" ELSE "TypeError"]

\* The outcome a response frame carries: marshal replaces the error by a
\* fresh RPCError(), msgpack hands the error payload on.
ResponseOutcome(fr) ==
    IF fr.err
    THEN [kind |-> "err", val |-> IF codec = "marshal" THEN RPCErrorV ELSE fr.val]
    ELSE [kind |-> "ok", val |-> fr.val]

\* Mutant of ProxyResponse: responses are matched to the calls by arrival
\* order (the oldest call in flight) instead of by the id they carry.
ProxyResponseByArrival(S, fr) ==
    IF fr.id \notin DOMAIN S.requests
    THEN [S EXCEPT !.exc = "KeyError"]
    ELSE LET oldest == CHOOSE i \in DOMAIN S.requests :
                           \A j \in DOMAIN S.requests : i <= j
             f == S.requests[oldest]
             o == ResponseOutcome(fr)
             r == FutSet(S.futs[f], o.kind, o.val)
         IN  IF r.exc # "none"
             THEN [S EXCEPT !.exc = r.exc]
             ELSE [S EXCEPT !.futs[f] = r.fut,
                            !.requests = DropKey(@, oldest)]

\* MarshalRPCProxy.results / MsgPackProxy.response
ProxyResponse(S, fr) ==
    IF fr.id \notin DOMAIN S.requests
    THEN [S EXCEPT !.exc = "KeyError"]
    ELSE LET f == S.requests[fr.id]
             o == ResponseOutcome(fr)
             r == FutSet(S.futs[f], o.kind, o.val)
         IN  IF r.exc # "none"
             THEN [S EXCEPT !.exc = r.exc]
             ELSE [S EXCEPT !.futs[f] = r.fut,
                            !.requests = DropKey(@, fr.id)]

\* MsgPackProtocol.request, and the request branch of
\* MarshalRPCProtocol.message: msgpack catches every Exception, marshal
\* only RPCError.
ProtoRequest(S, fr) ==
    LET r == DispatchCall(fr.m)
    IN  IF r.exc = "none"
        THEN IF r.future
             THEN [S EXCEPT !.futs = Append(@, HandlerFuture(fr.id))]
             ELSE SendResponse(S, fr.id, FALSE, r.val)
        ELSE IF codec = "msgpack"
        THEN SendResponse(S, fr.id, TRUE, RemoteV)
        ELSE IF r.exc = "RPCError"
        THEN SendResponse(S, fr.id, TRUE, RPCErrorV)
        ELSE [S EXCEPT !.exc = r.exc]

\* MsgPackProtocol.notify, and MarshalRPCProtocol.message with request None
ProtoNotify(S, fr) ==
    LET r == DispatchCall(fr.m)
    IN  IF r.exc = "none" THEN S
        ELSE IF codec = "marshal" /\ r.exc = "RPCError" THEN S
        ELSE [S EXCEPT !.exc = r.exc]

\* _result_done(future), the done callback of a Future a handler returned.
\* msgpack sends nothing for a cancelled Future; marshal asks
\* future.exception() first, which raises on a cancelled Future.
ResultDone(S, fut) ==
    IF fut.state = "cancelled"
    THEN IF codec = "msgpack" THEN S ELSE [S EXCEPT !.exc = "CancelledError"]
    ELSE IF fut.kind = "err"
    THEN SendResponse(S, fut.request, TRUE, fut.val)
    ELSE SendResponse(S, fut.request, FALSE, fut.val)

\* self.handlers[msg[0]](*msg) / the result-flag test of message()
HandleFrame(S, fr) ==
    CASE fr.t = "response" -> ProxyResponse(S, fr)
      [] fr.t = "request" -> ProtoRequest(S, fr)
      [] OTHER -> ProtoNotify(S, fr)

\* Mutant of Drain: the frame that arrived last is handled first.
RECURSIVE DrainLastFirst(_)
DrainLastFirst(S) ==
    IF S.buf = <<>> \/ S.exc # "none" THEN S
    ELSE DrainLastFirst(HandleFrame([S EXCEPT !.buf = SubSeq(@, 1, Len(@) - 1)],
                                    S.buf[Len(S.buf)]))

\* for msg in self.unpacker: ... -- each frame is taken from the unpacker
\* and handled; an exception leaves the loop, the frames behind it stay.
RECURSIVE Drain(_)
Drain(S) ==
    IF S.buf = <<>> \/ S.exc # "none" THEN S
    ELSE Drain(HandleFrame([S EXCEPT !.buf = Tail(@)], Head(S.buf)))

\* --------------------------------------------------------------- Deferred
\* whizzer.defer.Deferred as tests/test_defer.py drives it.  The current
\* outcome is (kind, payload); handlers holds the (callback, errback) pairs in
\* registration order, next counts the pairs already applied, scheduled says
\* a zero-delay loop event is queued to resume the chain; given is the
\* outcome callback, errback or cancel stored.  cancelled_cb says the Deferred
\* was constructed with a cancelled_cb, notified counts its invocations;
\* alive turns FALSE when the Deferred is deleted, logged counts the
\* logger.error records it emitted.
NoOutcome == [kind |-> "none", payload |-> Nil]
Outcome(kind, payload) == [kind |-> kind, payload |-> payload]

NewDeferred(cancelled_cb) ==
    [state |-> "pending", kind |-> "none", payload |-> Nil, handlers |-> <<>>,
     next |-> 0, scheduled |-> FALSE, consumed |-> FALSE, given |-> NoOutcome,
     cancelled_cb |-> cancelled_cb, notified |-> 0, alive |-> TRUE, logged |-> 0]

\* The handlers of the tests: add(result, 1), one_always, throw_always.
Handlers == {"add", "one_always", "throw_always"}

\* What a handler makes of its input: a return value or a raised exception.
Apply(h, payload) ==
    CASE h = "add" ->
            IF payload.k = "int" THEN Outcome("ok", IntV(payload.v + 1))
            ELSE Outcome("err", ExcV("TypeError"))
      [] h = "one_always" -> Outcome("ok", IntV(1))
      [] OTHER -> Outcome("err", ExcV("Exception"))

\* Mutant of Slot: the callback is called whatever the state of the chain.
SlotAnyKind(pair, kind) == IF pair.ok # "none" THEN pair.ok ELSE pair.err

\* The handler of a pair for the current kind ("none": the slot is absent).
Slot(pair, kind) == IF kind = "ok" THEN pair.ok ELSE pair.err

\* Mutant of ChainInput: every handler is given the value first stored.
ChainInputGiven(D) == D.given

\* What the next handler is called with: the current outcome.
ChainInput(D) == Outcome(D.kind, D.payload)

\* Resume the chain: apply the pairs not applied yet, in order.
RECURSIVE RunChain(_, _)
RunChain(D, log) ==
    IF D.next >= Len(D.handlers) THEN [d |-> D, calls |-> log]
    ELSE LET i == D.next + 1
             in == ChainInput(D)
             h == Slot(D.handlers[i], D.kind)
             out == Apply(h, in.payload)
         IN  IF h = "none"
             THEN RunChain([D EXCEPT !.next = i], log)
             ELSE RunChain([D EXCEPT !.next = i, !.kind = out.kind,
                                     !.payload = out.payload,
                                     !.consumed = (out.kind = "ok")],
                           Append(log, [i |-> i, h |-> h, in |-> in, out |-> out]))

\* Mutant of DeferredFire: a second callback/errback overwrites the outcome.
DeferredFireAgain(D, kind, payload) ==
    IF D.state = "cancelled" THEN [d |-> D, exc |-> "CancelledError"]
    ELSE [d |-> [D EXCEPT !.state = "called", !.kind = kind, !.payload = payload,
                          !.given = Outcome(kind, payload)],
          exc |-> "none"]

\* callback(result) / errback(error): the outcome is stored once.
DeferredFire(D, kind, payload) ==
    IF D.state = "pending"
    THEN [d |-> [D EXCEPT !.state = "called", !.kind = kind, !.payload = payload,
                          !.given = Outcome(kind, payload)],
          exc |-> "none"]
    ELSE IF D.state = "cancelled" THEN [d |-> D, exc |-> "CancelledError"]
    ELSE [d |-> D, exc |-> "AlreadyCalledError"]

\* callback / errback as the tests observe them: when the call returns, the
\* handlers registered so far have run (test_callback asserts the result
\* right after callback(5)).
DeferredCallback(D, log, kind, payload) ==
    LET f == DeferredFire(D, kind, payload)
        r == RunChain(f.d, log)
    IN  IF f.exc # "none" THEN [d |-> D, calls |-> log, exc |-> f.exc]
        ELSE [d |-> r.d, calls |-> r.calls, exc |-> "none"]

\* Mutant of DeferredCancel: the cancelled_cb is invoked by every cancel(),
\* the rejected ones included.
DeferredCancelNotifiesAlways(D) ==
    IF D.state = "pending"
    THEN [d |-> [D EXCEPT !.state = "cancelled", !.kind = "err",
                          !.payload = ExcV("CancelledError"),
                          !.given = Outcome("err", ExcV("CancelledError")),
                          !.notified = @ + (IF D.cancelled_cb THEN 1 ELSE 0),
                          !.scheduled = TRUE],
          exc |-> "none"]
    ELSE [d |-> [D EXCEPT !.notified = @ + (IF D.cancelled_cb THEN 1 ELSE 0)],
          exc |-> "AlreadyCalledError"]

\* cancel(): the cancelled_cb, if there is one, is called with the Deferred.
DeferredCancel(D) ==
    IF D.state = "pending"
    THEN [d |-> [D EXCEPT !.state = "cancelled", !.kind = "err",
                          !.payload = ExcV("CancelledError"),
                          !.given = Outcome("err", ExcV("CancelledError")),
                          !.notified = @ + (IF D.cancelled_cb THEN 1 ELSE 0),
                          !.scheduled = TRUE],
          exc |-> "none"]
    ELSE [d |-> D, exc |-> "AlreadyCalledError"]

\* Mutant of DeferredAdd: a pair added late does not resume the chain.
DeferredAddNoResume(D, ok, err) ==
    [D EXCEPT !.handlers = Append(@, [ok |-> ok, err |-> err,
                                      late |-> D.state # "pending"])]

\* add_callback / add_errback: the pair is appended; on a Deferred that has
\* its outcome the chain is scheduled to resume.
DeferredAdd(D, ok, err) ==
    [D EXCEPT !.handlers = Append(@, [ok |-> ok, err |-> err,
                                      late |-> D.state # "pending"]),
              !.scheduled = @ \/ D.state # "pending"]

\* Mutant of DeferredTimeout: the wait that times out cancels the Deferred.
DeferredTimeoutCancels(D) == DeferredCancel(D).d

\* result(timeout) running out on a pending Deferred
DeferredTimeout(D) == D

\* result() returning: the stored failure is raised, else the value returned.
DeferredResult(D) ==
    IF D.state = "cancelled" THEN [exc |-> "CancelledError", val |-> Nil]
    ELSE IF D.kind = "err" THEN [exc |-> D.payload.k, val |-> Nil]
    ELSE [exc |-> "none", val |-> D.payload]

\* Mutant of DeferredDelete: every failure is logged, observed or not.
DeferredDeleteLogsAnyFailure(D) ==
    [D EXCEPT !.alive = FALSE,
              !.logged = @ + (IF D.kind = "err" THEN 1 ELSE 0)]

\* The Deferred is deleted: a failure nobody observed is logged as an error.
DeferredDelete(D) ==
    [D EXCEPT !.alive = FALSE,
              !.logged = @ + (IF D.kind = "err" /\ ~D.consumed THEN 1 ELSE 0)]

\* ------------------------------------------------------------------- Init
\* RPCProtocolFactory.__init__ with factory.protocol set to one of the two
\* protocol classes; nothing built yet.
Init ==
    /\ codec \in Codecs
    /\ protocols = <<>>
    /\ built = 0
    /\ conn_number = [p \in Pids |-> -1]
    /\ conn = [p \in Pids |-> "none"]
    /\ factoryRef = [p \in Pids |-> FALSE]
    /\ transport = [p \in Pids |-> FALSE]
    /\ proxyObj = [p \in Pids |-> FALSE]
    /\ proxy_futures = [p \in Pids |-> <<>>]
    /\ request_num = [p \in Pids |-> 0]
    /\ requests = [p \in Pids |-> EmptyMap]
    /\ sent = [p \in Pids |-> <<>>]
    /\ unpacker = [p \in Pids |-> <<>>]
    /\ futs = <<>>
    /\ made_waiters = {}
    /\ exc = "none"
    /\ d \in {NewDeferred(cb) : cb \in BOOLEAN}
    /\ calls = <<>>
    /\ timedOut = FALSE

\* --------------------------------------------------------------- factory
\* RPCProtocolFactory.build plus the protocol's __init__
FactoryBuild(p) ==
    /\ protocols' = Append(protocols, p)
    /\ conn_number' = [conn_number EXCEPT ![p] = Len(protocols)]
    /\ built' = p
    /\ factoryRef' = [factoryRef EXCEPT ![p] = TRUE]

\* Mutant of ResolveAll: only the first waiter is given the proxy.
ResolveFirst(fs, waiters, p) ==
    IF waiters = <<>> THEN [futs |-> fs, exc |-> "none"]
    ELSE LET r == FutSet(fs[Head(waiters)], "ok", ProxyV(p))
         IN  IF r.exc # "none" THEN [futs |-> fs, exc |-> r.exc]
             ELSE [futs |-> [fs EXCEPT ![Head(waiters)] = r.fut], exc |-> "none"]

\* connection_made: the proxy is created and every waiting proxy Future is
\* given it, in list order; a set_result that raises ends the loop.
RECURSIVE ResolveAll(_, _, _)
ResolveAll(fs, waiters, p) ==
    IF waiters = <<>> THEN [futs |-> fs, exc |-> "none"]
    ELSE LET r == FutSet(fs[Head(waiters)], "ok", ProxyV(p))
         IN  IF r.exc # "none" THEN [futs |-> fs, exc |-> r.exc]
             ELSE ResolveAll([fs EXCEPT ![Head(waiters)] = r.fut], Tail(waiters), p)

\* Protocol.make_connection(transport): the transport is attached and
\* connection_made() runs.
ConnectionMade(p) ==
    LET r == ResolveAll(futs, proxy_futures[p], p)
    IN  /\ conn' = [conn EXCEPT ![p] = "open"]
        /\ transport' = [transport EXCEPT ![p] = TRUE]
        /\ proxyObj' = [proxyObj EXCEPT ![p] = TRUE]
        /\ futs' = r.futs
        /\ made_waiters' = made_waiters \cup {f \in 1..Len(futs) : r.futs[f] # futs[f]}
        /\ exc' = r.exc

\* factory.build() called on its own (a server, a test): the protocol exists
\* and has no connection yet.
Build ==
    /\ built < MaxConns
    /\ FactoryBuild(built + 1)
    /\ conn' = [conn EXCEPT ![built + 1] = "init"]
    /\ exc' = "none"
    /\ UNCHANGED <<codec, transport, proxyObj, proxy_futures, proxyVars, wireVars,
                   futs, made_waiters>>
    /\ UNCHANGED dVars

\* make_connection on a protocol built earlier
MakeConnection(p) ==
    /\ conn[p] = "init"
    /\ ConnectionMade(p)
    /\ UNCHANGED <<factoryVars, factoryRef, proxy_futures, proxyVars, wireVars>>
    /\ UNCHANGED dVars

\* SocketClient._connect: build, then make_connection, in one call
Connect ==
    /\ built < MaxConns
    /\ FactoryBuild(built + 1)
    /\ ConnectionMade(built + 1)
    /\ UNCHANGED <<codec, proxy_futures, proxyVars, wireVars>>
    /\ UNCHANGED dVars

\* Mutant of ProxyOf: a request made after connection_made is answered with a
\* Proxy object constructed for that caller.
ProxyOfNew(p) ==
    LET f == Len(futs) + 1
        fut == IF proxyObj[p] THEN FutSet(NewFuture(-1), "ok", ProxyV(p + MaxConns)).fut
               ELSE NewFuture(-1)
    IN  /\ futs' = Append(futs, fut)
        /\ proxy_futures' = [proxy_futures EXCEPT ![p] = Append(@, f)]
        /\ exc' = "none"

\* MarshalRPCProtocol.proxy / MsgPackProtocol.proxy
ProxyOf(p) ==
    LET f == Len(futs) + 1
        fut == IF proxyObj[p] THEN FutSet(NewFuture(-1), "ok", ProxyV(p)).fut
               ELSE NewFuture(-1)
    IN  /\ futs' = Append(futs, fut)
        /\ proxy_futures' = [proxy_futures EXCEPT ![p] = Append(@, f)]
        /\ exc' = "none"

\* protocol.proxy() by a caller that holds the protocol
ProtocolProxy(p) ==
    /\ conn[p] # "none"
    /\ Len(futs) < MaxFutures
    /\ ProxyOf(p)
    /\ UNCHANGED <<factoryVars, conn, factoryRef, transport, proxyObj, proxyVars,
                   wireVars, made_waiters>>
    /\ UNCHANGED dVars

\* RPCProtocolFactory.proxy(conn_number): self.protocols[conn_number].proxy()
FactoryProxy(i) ==
    /\ Len(futs) < MaxFutures
    /\ IF i + 1 <= Len(protocols)
       THEN ProxyOf(protocols[i + 1])
       ELSE /\ exc' = "IndexError"
            /\ UNCHANGED <<futs, proxy_futures>>
    /\ UNCHANGED <<factoryVars, conn, factoryRef, transport, proxyObj, proxyVars,
                   wireVars, made_waiters>>
    /\ UNCHANGED dVars

\* RPCProtocolFactory.lost_connection: self.protocols.remove(p)
RECURSIVE ListRemove(_, _)
ListRemove(list, x) ==
    IF list = <<>> THEN <<>>
    ELSE IF Head(list) = x THEN Tail(list)
    ELSE <<Head(list)>> \o ListRemove(Tail(list), x)

lost_connection(list, p) == ListRemove(list, p)

\* connection_lost of both protocols: the factory is told and the factory
\* reference dropped; with the reference already None the call raises.
ConnectionLost(p) ==
    IF factoryRef[p]
    THEN /\ protocols' = lost_connection(protocols, p)
         /\ factoryRef' = [factoryRef EXCEPT ![p] = FALSE]
         /\ transport' = [transport EXCEPT ![p] = FALSE]
         /\ exc' = "none"
    ELSE /\ exc' = "AttributeError"
         /\ UNCHANGED <<protocols, factoryRef, transport>>

\* ClientConnection.error(error)
ConnError(p) ==
    /\ conn[p] \in {"open", "closed"}
    /\ ConnectionLost(p)
    /\ conn' = [conn EXCEPT ![p] = "closed"]
    /\ UNCHANGED <<codec, built, conn_number, proxyObj, proxy_futures, proxyVars,
                   wireVars, futs, made_waiters>>
    /\ UNCHANGED dVars

\* ClientConnection.close(), reached through SocketClient.close()
ConnClose(p) ==
    /\ conn[p] \in {"open", "closed"}
    /\ ConnectionLost(p)
    /\ conn' = [conn EXCEPT ![p] = "closed"]
    /\ UNCHANGED <<codec, built, conn_number, proxyObj, proxy_futures, proxyVars,
                   wireVars, futs, made_waiters>>
    /\ UNCHANGED dVars

\* ----------------------------------------------------------------- proxy
\* A caller holds the proxy of p once a proxy Future of p has given it out.
HasProxy(p) ==
    \E i \in 1..Len(proxy_futures[p]) : futs[proxy_futures[p][i]].state = "done"

\* The request id begin_call takes: f.request = self.request_num
NextRequestId(p) == request_num[p]

\* MarshalRPCProxy.begin_call / MsgPackProxy.begin_call: the Future is
\* recorded under its id before the frame is sent.
BeginCall(p, m) ==
    /\ HasProxy(p)
    /\ Len(futs) < MaxFutures
    /\ request_num[p] < MaxFutures
    /\ Len(sent[p]) < MaxSent
    /\ LET id == NextRequestId(p)
           f == Len(futs) + 1
           S == Send(Machine(p), RequestFrame(id, m))
       IN  /\ request_num' = [request_num EXCEPT ![p] = @ + 1]
           /\ requests' = [requests EXCEPT ![p] = PutKey(@, id, f)]
           /\ futs' = Append(futs, NewFuture(id))
           /\ sent' = [sent EXCEPT ![p] = S.sent]
           /\ exc' = S.exc
    /\ UNCHANGED <<factoryVars, protoVars, unpacker, made_waiters>>
    /\ UNCHANGED dVars

\* The request counter after a notify.  MarshalRPCProxy.begin_notify takes
\* a request number as begin_call does; MsgPackProxy.notify takes none.
NotifyRequestNum(p) ==
    IF codec = "marshal" THEN request_num[p] + 1 ELSE request_num[p]

\* MarshalRPCProxy.begin_notify.  MsgPackProxy defines none, so the msgpack
\* proxy runs Proxy.begin_notify, whose body is its docstring: nothing is
\* sent and None is returned.
BeginNotify(p, m) ==
    /\ HasProxy(p)
    /\ Len(futs) < MaxFutures
    /\ request_num[p] < MaxFutures
    /\ Len(sent[p]) < MaxSent
    /\ IF codec = "marshal"
       THEN LET S == Send(Machine(p), NotifyFrame(m))
                f == Len(futs) + 1
                fut == FutSet(NewFuture(request_num[p]), "ok", Nil).fut
            IN  /\ request_num' = [request_num EXCEPT ![p] = NotifyRequestNum(p)]
                /\ sent' = [sent EXCEPT ![p] = S.sent]
                /\ futs' = IF S.exc = "none" THEN Append(futs, fut) ELSE futs
                /\ exc' = S.exc
       ELSE /\ exc' = "none"
            /\ UNCHANGED <<request_num, sent, futs>>
    /\ UNCHANGED <<factoryVars, protoVars, requests, unpacker, made_waiters>>
    /\ UNCHANGED dVars

\* MarshalRPCProxy.notify = begin_notify(...).result(timeout);
\* MsgPackProxy.notify = protocol.send_notification(method, args)
Notify(p, m) ==
    /\ HasProxy(p)
    /\ Len(futs) < MaxFutures
    /\ request_num[p] < MaxFutures
    /\ Len(sent[p]) < MaxSent
    /\ LET S == Send(Machine(p), NotifyFrame(m))
           fut == FutSet(NewFuture(request_num[p]), "ok", Nil).fut
       IN  /\ request_num' = [request_num EXCEPT ![p] = NotifyRequestNum(p)]
           /\ sent' = [sent EXCEPT ![p] = S.sent]
           /\ futs' = IF codec = "marshal" /\ S.exc = "none"
                      THEN Append(futs, fut) ELSE futs
           /\ exc' = S.exc
    /\ UNCHANGED <<factoryVars, protoVars, requests, unpacker, made_waiters>>
    /\ UNCHANGED dVars

\* Future.result(timeout): the wait drives the loop, so whatever arrives
\* meanwhile is the other actions; this is the moment it returns.  A
\* pending Future makes a wait with a timeout raise TimeoutError.
FutResult(fut) ==
    IF fut.state = "pending" THEN [exc |-> "TimeoutError", val |-> Nil]
    ELSE IF fut.state = "cancelled" THEN [exc |-> "CancelledError", val |-> Nil]
    ELSE IF fut.kind = "err" THEN [exc |-> fut.val.k, val |-> Nil]
    ELSE [exc |-> "none", val |-> fut.val]

\* proxy.call(...) is BeginCall followed by Result on the Future it returned.
Result(f) ==
    /\ f \in 1..Len(futs)
    /\ exc' = FutResult(futs[f]).exc
    /\ UNCHANGED <<factoryVars, protoVars, proxyVars, wireVars, futs, made_waiters>>
    /\ UNCHANGED dVars

\* The caller cancels the Future a begin_call returned; nothing is sent.
Cancel(f) ==
    /\ f \in 1..Len(futs)
    /\ futs[f].request >= 0
    /\ futs' = [futs EXCEPT ![f] = FutCancel(@).fut]
    /\ exc' = FutCancel(futs[f]).exc
    /\ UNCHANGED <<factoryVars, protoVars, proxyVars, wireVars, made_waiters>>
    /\ UNCHANGED dVars

\* ------------------------------------------------------------ inbound data
Replies(frames) == Len(SelectSeq(frames, LAMBDA fr : fr.t = "request"))

\* The Futures the handlers of these frames return.
Laters(frames) ==
    Len(SelectSeq(frames, LAMBDA fr : fr.t = "request" /\ DispatchCall(fr.m).future))

\* ClientConnection.read -> protocol.data(data): the frames of this read
\* join the unpacker and are handled in order.
Data(p, batch) ==
    /\ conn[p] = "open"
    /\ Len(unpacker[p]) + Len(batch) <= MaxBatch
    /\ Len(sent[p]) + Replies(unpacker[p] \o batch) <= MaxSent
    /\ Laters(unpacker[p] \o batch) = 0
       \/ Len(futs) + Laters(unpacker[p] \o batch) < MaxFutures
    /\ LET S == Drain([Machine(p) EXCEPT !.buf = unpacker[p] \o batch])
       IN  /\ requests' = [requests EXCEPT ![p] = S.requests]
           /\ futs' = S.futs
           /\ sent' = [sent EXCEPT ![p] = S.sent]
           /\ unpacker' = [unpacker EXCEPT ![p] = S.buf]
           /\ exc' = S.exc
    /\ UNCHANGED <<factoryVars, protoVars, request_num, made_waiters>>
    /\ UNCHANGED dVars

\* The server application finishes the work behind a pending Future one of
\* its handlers returned: set_result, set_exception or cancel, and the Future
\* runs its done callback.
HandlerDone(p, f, how) ==
    /\ f \in 1..Len(futs)
    /\ futs[f].hook = "_result_done"
    /\ futs[f].state = "pending"
    /\ Len(sent[p]) < MaxSent
    /\ LET r == CASE how = "result" -> FutSet(futs[f], "ok", IntV(5))
                  [] how = "exception" -> FutSet(futs[f], "err", ExcV("Exception"))
                  [] OTHER -> FutCancel(futs[f])
           S == IF r.exc = "none" THEN ResultDone(Machine(p), r.fut)
                ELSE [Machine(p) EXCEPT !.exc = r.exc]
       IN  /\ futs' = [futs EXCEPT ![f] = r.fut]
           /\ sent' = [sent EXCEPT ![p] = S.sent]
           /\ exc' = S.exc
    /\ UNCHANGED <<factoryVars, protoVars, proxyVars, unpacker, made_waiters>>
    /\ UNCHANGED dVars

\* ------------------------------------------------------------------- Next
\* The frames a peer sends a client in a read: responses carrying an id the
\* proxy has given out (in flight or answered already) or the next one it
\* has not given out yet, and a notify.
PeerFrames(p) ==
    {ResponseFrame(i, FALSE, IntV(5)) : i \in 0..request_num[p]}
    \cup {ResponseFrame(i, TRUE, RemoteV) : i \in 0..request_num[p]}
    \cup {NotifyFrame(m) : m \in Methods}

PeerBatches(p) == UNION {[1..n -> PeerFrames(p)] : n \in 1..MaxBatch}

\* One client connection, whose proxy the caller asks for once, and the
\* calls made through that proxy.
ClientPids == {1}

\* No Deferred of the tests takes part in the RPC runs.
InitRPC == Init /\ d = NewDeferred(FALSE)

Next ==
    \/ built = 0 /\ Connect
    \/ \E p \in ClientPids : proxy_futures[p] = <<>> /\ ProtocolProxy(p)
    \/ \E p \in ClientPids, m \in Methods : BeginCall(p, m)
    \/ \E p \in ClientPids, m \in Methods : BeginNotify(p, m)
    \/ \E p \in ClientPids, m \in Methods : Notify(p, m)
    \/ \E f \in 1..MaxFutures : Result(f)
    \/ \E f \in 1..MaxFutures : Cancel(f)
    \/ \E p \in ClientPids : \E batch \in PeerBatches(p) : Data(p, batch)
    \/ \E p \in ClientPids : ConnError(p)
    \/ \E p \in ClientPids : ConnClose(p)

Spec == InitRPC /\ [][Next]_vars

\* The frames a peer sends a server: requests and notifies for the methods
\* the application registered and for one it did not.
ServerMethods == Registered \cup {"missing"}

ServerFrames ==
    {RequestFrame(i, m) : i \in {0, 1}, m \in ServerMethods}
    \cup {NotifyFrame(m) : m \in ServerMethods}

\* A read brings one frame, or one frame with a notify behind it.
ServerBatches == {<<fr>> : fr \in ServerFrames}
                 \cup {<<fr, NotifyFrame("add")>> : fr \in ServerFrames}

Outcomes == {"result", "exception", "cancel"}

\* One connection serving inbound requests and notifies.
NextServer ==
    \/ built = 0 /\ Connect
    \/ \E p \in ClientPids : \E batch \in ServerBatches : Data(p, batch)
    \/ \E p \in ClientPids, f \in 1..MaxFutures, how \in Outcomes :
          HandlerDone(p, f, how)
    \/ \E p \in ClientPids : ConnError(p)

SpecServer == InitRPC /\ [][NextServer]_vars

\* The frames of a peer that pipelines calls to handlers that return: add
\* returns a value, later a Future; a read brings one or two of them.
PipelineFrames ==
    {RequestFrame(i, m) : i \in {0, 1}, m \in {"add", "later"}}
    \cup {NotifyFrame("add")}

PipelineBatches == {<<fr>> : fr \in PipelineFrames}
                   \cup {<<fr, gr>> : fr \in PipelineFrames, gr \in PipelineFrames}

\* One connection serving pipelined requests.
NextPipeline ==
    \/ built = 0 /\ Connect
    \/ \E p \in ClientPids : \E batch \in PipelineBatches : Data(p, batch)
    \/ \E p \in ClientPids, f \in 1..MaxFutures, how \in Outcomes :
          HandlerDone(p, f, how)
    \/ \E p \in ClientPids : ConnError(p)

SpecPipeline == InitRPC /\ [][NextPipeline]_vars

\* The factory and its connections: building, connecting, asking for
\* proxies, losing connections.
NextFactory ==
    \/ Build
    \/ Connect
    \/ \E p \in Pids : MakeConnection(p)
    \/ \E p \in Pids : ProtocolProxy(p)
    \/ \E i \in 0..(MaxConns - 1) : FactoryProxy(i)
    \/ \E f \in 1..MaxFutures : Result(f)
    \/ \E p \in Pids : ConnError(p)
    \/ \E p \in Pids : ConnClose(p)

SpecFactory == InitRPC /\ [][NextFactory]_vars

\* ------------------------------------------------------ Deferred actions
Values == {IntV(5)}
Errors == {ExcV("Exception")}

AddCallback(h) ==
    /\ d.alive
    /\ Len(d.handlers) < MaxChain
    /\ d' = DeferredAdd(d, h, "none")
    /\ exc' = "none"
    /\ UNCHANGED <<rpcVars, calls, timedOut>>

AddErrback(h) ==
    /\ d.alive
    /\ Len(d.handlers) < MaxChain
    /\ d' = DeferredAdd(d, "none", h)
    /\ exc' = "none"
    /\ UNCHANGED <<rpcVars, calls, timedOut>>

Callback(v) ==
    /\ d.alive
    /\ LET r == DeferredCallback(d, calls, "ok", v)
       IN  d' = r.d /\ calls' = r.calls /\ exc' = r.exc
    /\ UNCHANGED <<rpcVars, timedOut>>

Errback(e) ==
    /\ d.alive
    /\ LET r == DeferredCallback(d, calls, "err", e)
       IN  d' = r.d /\ calls' = r.calls /\ exc' = r.exc
    /\ UNCHANGED <<rpcVars, timedOut>>

DCancel ==
    /\ d.alive
    /\ d' = DeferredCancel(d).d
    /\ exc' = DeferredCancel(d).exc
    /\ UNCHANGED <<rpcVars, calls, timedOut>>

\* The zero-delay loop event: the chain resumes.
Resume ==
    /\ d.alive
    /\ d.scheduled
    /\ LET r == RunChain(d, calls)
       IN  /\ d' = [r.d EXCEPT !.scheduled = FALSE]
           /\ calls' = r.calls
    /\ exc' = "none"
    /\ UNCHANGED <<rpcVars, timedOut>>

\* result() returns once the Deferred has its outcome and the loop has run
\* the chain; on a cancelled Deferred it raises at once.
WaitReturn ==
    /\ d.alive
    /\ d.state # "pending"
    /\ d.state = "cancelled" \/ ~d.scheduled
    /\ d' = [d EXCEPT !.consumed = TRUE]
    /\ exc' = DeferredResult(d).exc
    /\ UNCHANGED <<rpcVars, calls, timedOut>>

\* result(timeout) whose timer fires first
WaitTimeout ==
    /\ d.alive
    /\ d.state = "pending"
    /\ d' = DeferredTimeout(d)
    /\ exc' = "TimeoutError"
    /\ timedOut' = TRUE
    /\ UNCHANGED <<rpcVars, calls>>

\* The last reference goes (self.deferred = None): the Deferred is deleted.
\* A Deferred with a loop event queued is still referenced by the loop.
Delete ==
    /\ d.alive
    /\ ~d.scheduled
    /\ d' = DeferredDelete(d)
    /\ exc' = "none"
    /\ UNCHANGED <<rpcVars, calls, timedOut>>

NextDeferred ==
    \/ \E h \in Handlers : AddCallback(h)
    \/ \E h \in Handlers : AddErrback(h)
    \/ \E v \in Values : Callback(v)
    \/ \E e \in Errors : Errback(e)
    \/ DCancel
    \/ Resume
    \/ WaitReturn
    \/ WaitTimeout
    \/ Delete

\* No protocol takes part: the factory side stays as constructed.
InitDeferred == Init /\ codec = "marshal"

SpecDeferred == InitDeferred /\ [][NextDeferred]_vars

\* ================================================================= claims

\* Every in-flight entry maps the id a begin_call allocated to its Future.
C1_IdsDistinct ==
    \A p \in Pids : \A i \in DOMAIN requests[p] :
        /\ i < request_num[p]
        /\ futs[requests[p][i]].request = i
        /\ \A j \in DOMAIN requests[p] : j # i => requests[p][j] # requests[p][i]

\* What one read holding one response for an in-flight id does.
C1_ResponseStep ==
    \A p \in ClientPids : \A fr \in PeerFrames(p) :
        ( /\ unpacker[p] = <<>>
          /\ fr.t = "response"
          /\ fr.id \in DOMAIN requests[p]
          /\ Data(p, <<fr>>) )
        => LET f == requests[p][fr.id]
               val == IF fr.err /\ codec = "marshal" THEN RPCErrorV ELSE fr.val
           IN  /\ \A g \in 1..Len(futs) : g # f => futs'[g] = futs[g]
               /\ futs[f].state = "pending" =>
                    /\ futs'[f] = [state |-> "done",
                                   kind |-> IF fr.err THEN "err" ELSE "ok",
                                   val |-> val, request |-> fr.id,
                                   hook |-> "none"]
                    /\ fr.id \notin DOMAIN requests'[p]
                    /\ exc' = "none"

\* C1 -- Request/response matching.  The ids of the calls in flight are
\* pairwise distinct, each is the id its Future got from begin_call, and a
\* response carrying the id of a call in flight resolves, with the result or
\* the failure it carries, the Future of exactly that call and removes its
\* entry; no other Future changes.
C1_RequestResponseMatching == []C1_IdsDistinct /\ [][C1_ResponseStep]_vars

\* C1 witness: two calls were in flight and the second was answered first.
C1_OutOfOrderAnswered ==
    \E p \in ClientPids : \E f, g \in 1..Len(futs) :
        /\ 0 \in DOMAIN requests[p] /\ requests[p][0] = f
        /\ futs[f].state = "pending"
        /\ futs[g].request = 1 /\ futs[g].state = "done"
        /\ futs[g].val = IntV(5)

\* C2 -- No caller waits forever.  When a connection goes from open to
\* closed, every pending Future in the proxy's in-flight map is failed with
\* ConnectionLost and the map is emptied.
C2_ConnectionLostFailsInFlight ==
    [][\A p \in Pids :
        (conn[p] = "open" /\ conn'[p] = "closed") =>
            /\ requests'[p] = EmptyMap
            /\ \A i \in DOMAIN requests[p] :
                  futs[requests[p][i]].state = "pending" =>
                      /\ futs'[requests[p][i]].state = "done"
                      /\ futs'[requests[p][i]].kind = "err"
                      /\ futs'[requests[p][i]].val.k = "ConnectionLost"]_vars

C7_IndexStable ==
    \A p \in Pids :
        factoryRef[p] =>
            /\ conn_number[p] + 1 <= Len(protocols)
            /\ protocols[conn_number[p] + 1] = p

\* C9 -- Notify is fire-and-forget.  With the connection up, notify and
\* begin_notify of either codec send exactly one notify frame, leave the
\* request counter and the in-flight map as they were, and begin_notify
\* returns a new Future already resolved to None.
C9_NotifyFireAndForget ==
    [][\A p \in ClientPids : \A m \in Methods :
        (transport[p] /\ (Notify(p, m) \/ BeginNotify(p, m))) =>
            /\ request_num' = request_num
            /\ requests' = requests
            /\ sent'[p] = Append(sent[p], NotifyFrame(m))
            /\ BeginNotify(p, m) =>
                  /\ Len(futs') = Len(futs) + 1
                  /\ futs'[Len(futs')].state = "done"
                  /\ futs'[Len(futs')].val = Nil]_vars

\* C10 -- A spurious response is silently dropped.  A read whose first frame
\* is a response with an id that is not in the in-flight map raises nothing,
\* changes no Future and no map entry, and the frame behind it is handled.
C10_SpuriousResponseDropped ==
    [][\A p \in ClientPids : \A fr \in PeerFrames(p) :
        \A batch \in {<<fr>>, <<fr, NotifyFrame("add")>>} :
            ( /\ unpacker[p] = <<>>
              /\ fr.t = "response"
              /\ fr.id \notin DOMAIN requests[p]
              /\ Data(p, batch) )
            => /\ exc' = "none"
               /\ futs' = futs
               /\ requests' = requests
               /\ unpacker'[p] = <<>>]_vars

\* What a step does to a Deferred that already left pending.
C3_Step ==
    /\ d.state # "pending" => (d'.state = d.state /\ d'.given = d.given)
    /\ \A v \in Values \cup Errors :
          (d.state # "pending" /\ (Callback(v) \/ Errback(v))) =>
              /\ d' = d
              /\ exc' = IF d.state = "cancelled" THEN "CancelledError"
                        ELSE "AlreadyCalledError"
    /\ (d.state # "pending" /\ DCancel) =>
          (d' = d /\ exc' \in {"AlreadyCalledError", "CancelledError"})
    /\ (d.state = "called" /\ DCancel) => exc' = "AlreadyCalledError"
    /\ (d.state = "cancelled" /\ WaitReturn) => exc' = "CancelledError"

\* C3 -- Single assignment.  Once the Deferred has left pending, it never
\* leaves the state it reached and the outcome it stored stays; every later
\* callback, errback or cancel is rejected and changes nothing: with
\* AlreadyCalledError after callback/errback, with CancelledError when
\* callback/errback comes after cancel, and result() on a cancelled Deferred
\* raises CancelledError.
C3_SingleAssignment == [][C3_Step]_vars

\* C3 witness: a second callback on a Deferred that holds 5 was rejected.
C3_SecondCallRejected ==
    /\ d.state = "called"
    /\ d.given = Outcome("ok", IntV(5))
    /\ exc = "AlreadyCalledError"

\* The outcome of a whole chain applied to an outcome, pair by pair, as the
\* chain semantics define it.
RECURSIVE FoldChain(_, _)
FoldChain(pairs, cur) ==
    IF pairs = <<>> THEN cur
    ELSE LET pair == Head(pairs)
             step == IF cur.kind = "ok" /\ pair.ok # "none"
                     THEN Apply(pair.ok, cur.payload)
                     ELSE IF cur.kind = "err" /\ pair.err # "none"
                     THEN Apply(pair.err, cur.payload)
                     ELSE cur
         IN  FoldChain(Tail(pairs), step)

ChainDrained == d.state # "pending" /\ ~d.scheduled

\* C4 -- Chain ordering.  The handlers are invoked in registration order,
\* the first on the outcome given to callback/errback and each later one on
\* what the one before it produced, and once the chain has run the current
\* outcome is hn(...h1(v)), whether the handlers were registered before or
\* after the Deferred got its outcome.
C4_ChainOrdering ==
    /\ \A k \in 1..Len(calls) :
          calls[k].h \in {d.handlers[calls[k].i].ok, d.handlers[calls[k].i].err}
    /\ \A k \in 1..(Len(calls) - 1) :
          /\ calls[k].i < calls[k + 1].i
          /\ calls[k + 1].in = calls[k].out
    /\ calls # <<>> => calls[1].in = d.given
    /\ ChainDrained => Outcome(d.kind, d.payload) = FoldChain(d.handlers, d.given)

\* C4 witness: the chain ran a handler registered before callback(5) and then
\* one registered after it.
C4_EarlyThenLateHandler ==
    /\ ChainDrained
    /\ d.given = Outcome("ok", IntV(5))
    /\ \E k \in 1..(Len(calls) - 1) :
          /\ ~d.handlers[calls[k].i].late
          /\ d.handlers[calls[k + 1].i].late
          /\ calls[k + 1].out.kind = "ok"

\* The outcome the chain had when it reached pair j: what the last handler
\* invoked before j produced, or the outcome given if none was.
OutcomeBefore(j) ==
    LET before == {k \in 1..Len(calls) : calls[k].i < j}
    IN  IF before = {} THEN d.given
        ELSE calls[CHOOSE k \in before : \A l \in before : l <= k].out

\* C5 -- Failure skipping and recovery.  A handler invoked while the chain
\* is in err is the errback of its pair and gets the failure; a pair is
\* passed over exactly when it has no handler for the kind the chain is in;
\* an errback that returns puts the chain in ok with its return value, one
\* that raises leaves it in err with the new error, which the next errback
\* invoked receives.
C5_FailureSkipAndRecovery ==
    /\ \A k \in 1..Len(calls) :
          LET c == calls[k]
              pair == d.handlers[c.i]
          IN  /\ c.in = OutcomeBefore(c.i)
              /\ c.in.kind = "err" => (pair.err # "none" /\ c.h = pair.err)
              /\ c.in.kind = "ok" => (pair.ok # "none" /\ c.h = pair.ok)
              /\ c.h = "one_always" => c.out = Outcome("ok", IntV(1))
              /\ c.h = "throw_always" => c.out = Outcome("err", ExcV("Exception"))
    /\ \A j \in 1..d.next :
          (\A k \in 1..Len(calls) : calls[k].i # j) =>
              IF OutcomeBefore(j).kind = "err"
              THEN d.handlers[j].err = "none"
              ELSE d.handlers[j].ok = "none"

\* C5 witness: a callback raised, a callback-only pair was passed over, and
\* the next errback brought the chain back to ok.
C5_SkippedThenRecovered ==
    \E k \in 1..(Len(calls) - 1) :
        /\ calls[k].in.kind = "ok"
        /\ calls[k].out.kind = "err"
        /\ calls[k + 1].i > calls[k].i + 1
        /\ calls[k + 1].out.kind = "ok"

\* What a timed-out wait does, and what the steps after it do.
C8_Step ==
    /\ WaitTimeout => (exc' = "TimeoutError" /\ d' = d /\ calls' = calls)
    /\ \A v \in Values :
          (timedOut /\ d.state = "pending" /\ Callback(v)) =>
              /\ exc' = "none"
              /\ d'.state = "called"
              /\ d'.given = Outcome("ok", v)
              /\ d'.handlers = d.handlers
    /\ (timedOut /\ d.state = "called" /\ WaitReturn) =>
          /\ Outcome(d.kind, d.payload) = FoldChain(d.handlers, d.given)
          /\ d.kind = "ok" => exc' = "none"

\* C8 -- Wait timeout leaves the Deferred untouched.  A result(timeout) that
\* runs out raises TimeoutError and changes neither the Deferred nor its
\* handler chain; a callback after it is accepted as on any pending
\* Deferred, and a later result() returns the value the chain makes of it.
C8_TimeoutLeavesUntouched == [][C8_Step]_vars

\* C8 witness: after a timed-out wait, callback(5) came and a later result()
\* returned 5.
C8_ReturnedAfterTimeout ==
    /\ timedOut
    /\ d.state = "called"
    /\ d.given = Outcome("ok", IntV(5))
    /\ d.kind = "ok" /\ d.payload = IntV(5)
    /\ d.consumed
    /\ exc = "none"

\* The frame the protocol wrote last.
LastSent(p) == sent'[p][Len(sent'[p])]

\* C11 -- Every inbound request is answered exactly once.  On an open
\* connection a request whose handler returns a plain value is answered in
\* the same read by one response with its id; one whose handler returns a
\* Future is not answered then, and the step in which that Future terminates
\* (result, failure or cancellation) sends exactly one response with the id.
C11_AnsweredExactlyOnce ==
    [][\A p \in ClientPids :
        /\ \A fr \in ServerFrames :
              ( /\ fr.t = "request" /\ DispatchCall(fr.m).exc = "none"
                /\ unpacker[p] = <<>> /\ transport[p]
                /\ Data(p, <<fr>>) )
              => IF DispatchCall(fr.m).future
                 THEN sent'[p] = sent[p]
                 ELSE /\ Len(sent'[p]) = Len(sent[p]) + 1
                      /\ LastSent(p) = ResponseFrame(fr.id, FALSE, IntV(5))
        /\ \A f \in 1..Len(futs) : \A how \in Outcomes :
              ( /\ futs[f].state = "pending" /\ transport[p]
                /\ HandlerDone(p, f, how) )
              => /\ Len(sent'[p]) = Len(sent[p]) + 1
                 /\ LastSent(p).t = "response"
                 /\ LastSent(p).id = futs[f].request
                 /\ LastSent(p).err = (how # "result")]_vars

\* C12 -- A failing request becomes a remote-error reply.  On an open
\* connection a request whose dispatch raises, the lookup failure of an
\* unregistered name included, makes the protocol of either codec send one
\* response-err frame with the request's id; no exception escapes the read
\* and the connection stays open.
C12_FailingRequestAnswered ==
    [][\A p \in ClientPids : \A fr \in ServerFrames :
        ( /\ fr.t = "request" /\ DispatchCall(fr.m).exc # "none"
          /\ unpacker[p] = <<>> /\ transport[p]
          /\ Data(p, <<fr>>) )
        => /\ exc' = "none"
           /\ Len(sent'[p]) = Len(sent[p]) + 1
           /\ LastSent(p).t = "response"
           /\ LastSent(p).id = fr.id
           /\ LastSent(p).err
           /\ conn'[p] = "open"]_vars

\* C13 -- An inbound notify never produces a reply.  A read that starts
\* with a notify, whatever its handler does, sends no frame for it, lets no
\* exception escape, and handles the frame that follows it.
C13_NotifyNeverReplies ==
    [][\A p \in ClientPids : \A fr \in ServerFrames :
        \A batch \in {<<fr>>, <<fr, NotifyFrame("add")>>} :
            ( /\ fr.t = "notify"
              /\ unpacker[p] = <<>> /\ transport[p]
              /\ Data(p, batch) )
            => /\ sent'[p] = sent[p]
               /\ exc' = "none"
               /\ unpacker'[p] = <<>>]_vars

\* The invocations of the handler pair j.
CallsOf(j) == {k \in 1..Len(calls) : calls[k].i = j}

\* What holds of the pairs registered on a Deferred that had its outcome.
C14_LateInvokedOnce ==
    /\ \A j \in 1..Len(d.handlers) :
          d.handlers[j].late =>
              /\ Cardinality(CallsOf(j)) <= 1
              /\ \A k \in CallsOf(j) : calls[k].in = OutcomeBefore(j)
              /\ ChainDrained =>
                    LET cur == OutcomeBefore(j)
                        has == IF cur.kind = "ok" THEN d.handlers[j].ok # "none"
                               ELSE d.handlers[j].err # "none"
                    IN  has => CallsOf(j) # {}
    /\ (ChainDrained /\ calls # <<>>) =>
          Outcome(d.kind, d.payload) = calls[Len(calls)].out

\* A wait on a Deferred that was called returns or raises its current outcome.
C14_WaitStep ==
    (d.state = "called" /\ WaitReturn) =>
        exc' = IF d.kind = "err" THEN d.payload.k ELSE "none"

C15_NoReentrantInvocation ==
    [][( \/ \E v \in Values : Callback(v)
         \/ \E e \in Errors : Errback(e)
         \/ \E h \in Handlers : AddCallback(h) \/ AddErrback(h) )
       => calls' = calls]_vars

\* What cancel() does, and what a wait on a cancelled Deferred does.
C16_Step ==
    /\ (d.state = "pending" /\ DCancel) =>
          /\ exc' = "none"
          /\ d'.state = "cancelled"
          /\ d'.notified = IF d.cancelled_cb THEN 1 ELSE 0
          /\ d'.kind = "err" /\ d'.payload = ExcV("CancelledError")
    /\ (d.state # "pending" /\ DCancel) =>
          /\ exc' = "AlreadyCalledError"
          /\ d'.notified = d.notified
          /\ d'.state = d.state
    /\ (d.state = "cancelled" /\ WaitReturn) => exc' = "CancelledError"
    /\ d.state = "cancelled" => d'.state = "cancelled"

\* The cancelled_cb has run once if there is one and the Deferred is
\* cancelled, and not at all otherwise.
C16_NotifiedOnce ==
    d.notified = IF d.state = "cancelled" /\ d.cancelled_cb THEN 1 ELSE 0

\* C16 -- Cancellation.  cancel() on a pending Deferred moves it to
\* cancelled, calls the cancelled_cb exactly once when one was supplied, and
\* puts the chain in failure propagation with CancelledError, so that a wait
\* raises CancelledError; cancel() on a Deferred that has left pending raises
\* AlreadyCalledError and does not call the cancelled_cb.
C16_Cancellation == []C16_NotifiedOnce /\ [][C16_Step]_vars

\* C16 witness: a Deferred with a cancelled_cb was cancelled, an errback saw
\* the CancelledError, and a second cancel() was rejected.
C16_CancelledThenRejected ==
    /\ d.state = "cancelled"
    /\ d.cancelled_cb /\ d.notified = 1
    /\ \E k \in 1..Len(calls) : calls[k].in = Outcome("err", ExcV("CancelledError"))
    /\ exc = "AlreadyCalledError"

\* C18 -- Unobserved-failure logging.  A deleted Deferred has emitted exactly
\* one logger.error record if its current outcome at deletion was a failure
\* that no wait had retrieved and no errback had turned into a value, and none
\* if the outcome was a value or the failure was consumed; a live Deferred
\* has emitted none.
C18_UnobservedFailureLogged ==
    /\ d.alive => d.logged = 0
    /\ ~d.alive =>
          d.logged = IF d.kind = "err" /\ ~d.consumed THEN 1 ELSE 0
    /\ (d.kind = "err" /\ calls # <<>> /\ d.consumed) =>
          calls[Len(calls)].out.kind = "err"

\* C18 witness: a callback raised, nobody looked, the Deferred was deleted
\* and one record was logged.
C18_LoggedOnDelete ==
    /\ ~d.alive
    /\ d.logged = 1
    /\ d.given = Outcome("ok", IntV(5))
    /\ \E k \in 1..Len(calls) :
          calls[k].h = "throw_always" /\ calls[k].out.kind = "err"

\* C17 -- Proxy requests after connection loss fail.  Once connection_lost
\* has run on a protocol, every protocol.proxy() call returns a new Future
\* that is failed with ConnectionLost, never one resolved with the proxy of
\* the dead connection.
C17_ProxyAfterLossFails ==
    [][\A p \in Pids :
        (conn[p] = "closed" /\ ProtocolProxy(p)) =>
            /\ Len(futs') = Len(futs) + 1
            /\ futs'[Len(futs')].state = "done"
            /\ futs'[Len(futs')].kind = "err"
            /\ futs'[Len(futs')].val = ExcV("ConnectionLost")]_vars

\* Every Future in an in-flight map is pending.
C19_AllPending ==
    \A p \in Pids : \A i \in DOMAIN requests[p] :
        futs[requests[p][i]].state = "pending"

\* A read holding a response for an id in the map removes that entry and no
\* other.
C19_RemovedOnce ==
    \A p \in ClientPids : \A fr \in PeerFrames(p) :
        ( /\ unpacker[p] = <<>>
          /\ fr.t = "response"
          /\ fr.id \in DOMAIN requests[p]
          /\ Data(p, <<fr>>) )
        => DOMAIN requests'[p] = DOMAIN requests[p] \ {fr.id}

\* C19 -- In-flight map invariant.  In every state each id in a proxy's
\* in-flight map maps to a Future that is still pending, and processing a
\* response for an id removes the entry of that id.
C19_InFlightMapInvariant == []C19_AllPending /\ [][C19_RemovedOnce]_vars

\* C20 -- A response for a locally cancelled call is dropped.  When the
\* caller has cancelled the Future of a call and the response with its id
\* arrives, the read raises nothing, the Future stays cancelled, the id's
\* entry is gone from the in-flight map, and the frame behind the response
\* is handled.
C20_CancelledResponseDropped ==
    [][\A p \in ClientPids : \A fr \in PeerFrames(p) :
        \A batch \in {<<fr>>, <<fr, NotifyFrame("add")>>} :
            ( /\ unpacker[p] = <<>>
              /\ fr.t = "response"
              /\ fr.id \in DOMAIN requests[p]
              /\ futs[requests[p][fr.id]].state = "cancelled"
              /\ Data(p, batch) )
            => /\ exc' = "none"
               /\ futs'[requests[p][fr.id]] = futs[requests[p][fr.id]]
               /\ fr.id \notin DOMAIN requests'[p]
               /\ unpacker'[p] = <<>>]_vars

\* C21 -- Closed is entered once.  For any sequence of ClientConnection.error
\* and ClientConnection.close on one connection, the first takes it to closed
\* and has the factory told once; every later one raises nothing and leaves
\* the factory's list as it is.
C21_ClosedEnteredOnce ==
    [][\A p \in Pids :
        (ConnError(p) \/ ConnClose(p)) =>
            /\ exc' = "none"
            /\ conn'[p] = "closed"
            /\ protocols' = IF conn[p] = "open" THEN lost_connection(protocols, p)
                            ELSE protocols]_vars

\* C22 -- Messages are exchanged only in state open.  A connection goes
\* through init, open, closed in that order and stays closed; while it is in
\* init or closed no frame is written to its transport and no inbound frame
\* is handled; a begin_call on the proxy of a closed connection leaves no
\* pending entry in the in-flight map.
C22_MessagesOnlyInOpen ==
    [][\A p \in Pids :
        /\ conn'[p] # conn[p] =>
              <<conn[p], conn'[p]>> \in {<<"none", "init">>, <<"none", "open">>,
                                         <<"init", "open">>, <<"open", "closed">>}
        /\ conn[p] \in {"init", "closed"} =>
              /\ sent'[p] = sent[p]
              /\ unpacker'[p] = unpacker[p]
        /\ \A m \in Methods :
              (conn[p] = "closed" /\ BeginCall(p, m)) =>
                  \A i \in DOMAIN requests'[p] :
                      i \notin DOMAIN requests[p] =>
                          futs'[requests'[p][i]].state # "pending"]_vars

\* the resolved proxy Futures of protocol p
ResolvedProxyFutures(p) ==
    {proxy_futures[p][k] : k \in 1..Len(proxy_futures[p])} \cap
        {f \in 1..Len(futs) : futs[f].state = "done"}

\* C23: all resolved proxy Futures of a protocol hold the protocol's Proxy
C23_SameProxy ==
    \A p \in Pids : \A f, g \in ResolvedProxyFutures(p) :
        /\ proxyObj[p]
        /\ futs[f].kind = "ok"
        /\ futs[f].val = futs[g].val
        /\ futs[f].val = ProxyV(p)

\* C23: the Proxy is created by connection_made only, it is never replaced,
\* and a resolved proxy Future keeps the Proxy it was given
C23_Step ==
    \A p \in Pids :
        /\ proxyObj'[p] # proxyObj[p] =>
              /\ ~proxyObj[p]
              /\ conn[p] \in {"none", "init"}
              /\ conn'[p] = "open"
        /\ conn[p] \in {"open", "closed"} => proxyObj[p] /\ conn'[p] # "init"
        /\ \A f \in ResolvedProxyFutures(p) : futs'[f] = futs[f]

\* C23 -- One Proxy per connection.  connection_made creates the protocol's
\* Proxy once, and every proxy Future of the protocol that is resolved, asked
\* for before or after connection_made and in any number, holds that one
\* Proxy, whose request counter and in-flight map all callers then use.
C23_OneProxyPerConnection == []C23_SameProxy /\ [][C23_Step]_vars

\* C23 witness: one protocol with a proxy Future that waited for
\* connection_made and one asked for afterwards, both holding its Proxy, and
\* a second protocol whose proxy Future holds another Proxy.
C23_TwoCallersOneProxy ==
    \E p, q \in Pids : \E f, g \in ResolvedProxyFutures(p) :
        /\ p # q
        /\ f \in made_waiters
        /\ g \notin made_waiters
        /\ futs[f].val = futs[g].val
        /\ \E h \in ResolvedProxyFutures(q) : futs[h].val # futs[f].val

\* The responses to the requests among frames whose handlers return plain
\* values, in the order of the requests.
SyncResponses(frames) ==
    LET reqs == SelectSeq(frames, LAMBDA fr : fr.t = "request" /\ ~DispatchCall(fr.m).future)
    IN  [k \in 1..Len(reqs) |-> ResponseFrame(reqs[k].id, FALSE, DispatchCall(reqs[k].m).val)]

\* C24 -- Responses to synchronous handlers keep request order.  A read
\* whose frames all have handlers that return handles every frame and appends
\* to what the transport was given the responses to the requests with
\* plain-value handlers, in the order the requests arrived; no step changes
\* or reorders what was written before.
C24_SyncResponsesInOrder ==
    [][\A p \in ClientPids :
        /\ Len(sent'[p]) >= Len(sent[p])
        /\ SubSeq(sent'[p], 1, Len(sent[p])) = sent[p]
        /\ \A batch \in PipelineBatches :
              ( /\ \A k \in 1..Len(batch) : DispatchCall(batch[k].m).exc = "none"
                /\ unpacker[p] = <<>>
                /\ Data(p, batch) )
              => /\ sent'[p] = sent[p] \o SyncResponses(batch)
                 /\ unpacker'[p] = <<>>
                 /\ exc' = "none"]_vars

\* C24 witness: requests 1 and 0 arrived in that order and the transport was
\* given the response to 1, then the response to 0.
C24_TwoAnsweredInArrivalOrder ==
    \E p \in ClientPids :
        /\ sent[p] = <<ResponseFrame(1, FALSE, IntV(5)), ResponseFrame(0, FALSE, IntV(5))>>
        /\ futs = <<>>
        /\ unpacker[p] = <<>>
        /\ exc = "none"

====
